---- MODULE Spec2Model ----
(***************************************************************************)
(* Model of tools/stronghold/src/api/ast.py: extraction of callable        *)
(* signatures and class field layouts from a parsed Python module.         *)
(*                                                                         *)
(* A syntax tree is a sequence of statement nodes in pre-order (document   *)
(* order); node i carries its nesting depth, so the children of a node are *)
(* the following nodes one level deeper, up to the next node that is not   *)
(* deeper.  Index 0 stands for the ast.Module root.  Only the node kinds   *)
(* the two visitors can tell apart are kept: ClassDef, FunctionDef,        *)
(* AsyncFunctionDef, a compound statement (If), Assign and AnnAssign;      *)
(* expression nodes and other simple statements hold no statement and are  *)
(* left unchanged by generic_visit.                                        *)
(*                                                                         *)
(* A qualified name ".".join(parts) is kept as the sequence of its parts:  *)
(* identifiers hold no dot, so the join is one-to-one on them.             *)
(***************************************************************************)
EXTENDS Integers, Sequences, FiniteSets, TLC

VARIABLES
    tree,       \* the parsed source file: ast.parse(path.read_text())
    raw_api,    \* outcome of extract_raw(path)
    api,        \* outcome of extract(path)
    classes,    \* outcome of extract_classes(path)
    params      \* outcome of _function_def_to_parameters(node)

vars == <<tree, raw_api, api, classes, params>>

(***************************************************************************)
(* Bounds of the model.                                                    *)
(***************************************************************************)
MaxNodes == 3        \* statements of a tree in the traversal specification
MaxStmts == 2        \* statements below the root class in SpecFields
MaxDecorators == 3   \* decorators of one class
MaxPosOnly == 1      \* positional-only parameters
MaxArgs == 2         \* positional-or-keyword parameters
MaxKwOnly == 2       \* keyword-only parameters

None == "None"

(***************************************************************************)
(* Python values.                                                          *)
(***************************************************************************)
\* dict(): an insertion-ordered mapping.
EmptyDict == [order |-> <<>>, at |-> <<>>]

\* d[k] = v
DictSet(d, k, v) ==
    [order |-> IF k \in DOMAIN d.at THEN d.order ELSE Append(d.order, k),
     at |-> [x \in (DOMAIN d.at) \cup {k} |-> IF x = k THEN v ELSE d.at[x]]]

Keys(d) == DOMAIN d.at

\* The outcome of a call: not made yet, returned a value, or raised.
NotCalled == [status |-> "none", value |-> EmptyDict]
Returned(v) == [status |-> "ok", value |-> v]
Raised == [status |-> "raised", value |-> EmptyDict]

RECURSIVE SetToSeq(_)
SetToSeq(S) ==
    IF S = {} THEN <<>>
    ELSE LET m == CHOOSE x \in S : \A y \in S : x <= y
         IN <<m>> \o SetToSeq(S \ {m})

(***************************************************************************)
(* The syntax tree.                                                        *)
(***************************************************************************)
DepthOf(t, i) == IF i = 0 THEN -1 ELSE t[i].depth

\* ast.iter_child_nodes restricted to statements, in document order.
Children(t, i) ==
    SetToSeq({j \in (i + 1)..Len(t) :
                /\ t[j].depth = DepthOf(t, i) + 1
                /\ \A k \in (i + 1)..j : t[k].depth > DepthOf(t, i)})

\* node.lineno: nodes are numbered in document order.
lineno(t, i) == i

NoArgs ==
    [posonlyargs |-> <<>>, args |-> <<>>, defaults |-> <<>>,
     kwonlyargs |-> <<>>, kw_defaults |-> <<>>, vararg |-> None, kwarg |-> None]

NoTarget == [kind |-> "NoTarget", id |-> <<>>]

Node(kind, name) ==
    [kind |-> kind, depth |-> 0, name |-> name, decorator_list |-> <<>>,
     args |-> NoArgs, targets |-> <<>>, target |-> NoTarget,
     value |-> None, annotation |-> None]

IsLeaf(n) == n.kind \in {"Assign", "AnnAssign"}

WellFormed(t) ==
    /\ Len(t) > 0 => t[1].depth = 0
    /\ \A i \in 1..(Len(t) - 1) :
          /\ t[i + 1].depth <= t[i].depth + 1
          /\ IsLeaf(t[i]) => t[i + 1].depth <= t[i].depth

\* The nesting depths of k statements in document order.
Shapes(k) ==
    {ds \in [1..k -> 0..(k - 1)] :
        /\ k > 0 => ds[1] = 0
        /\ \A i \in 1..(k - 1) : ds[i + 1] <= ds[i] + 1}

\* The statements vs at the depths ds.
TreeOf(vs, ds) == [i \in DOMAIN vs |-> [vs[i] EXCEPT !.depth = ds[i]]]

KindOf(t, i) == IF i = 0 THEN "Module" ELSE t[i].kind

(***************************************************************************)
(* api.types.annotation_to_dataclass: the type descriptor of an            *)
(* annotation, None for a missing annotation.                              *)
(***************************************************************************)
annotation_to_dataclass(annotation) ==
    IF annotation = None THEN None ELSE "TypeName(" \o annotation \o ")"

(***************************************************************************)
(* _ContextualNodeVisitor and extract_raw.                                 *)
(***************************************************************************)
RECURSIVE ContextualNodeVisitor_visit(_, _, _, _)
RECURSIVE ContextualNodeVisitor_visit_each(_, _, _, _)

\* ast.NodeVisitor.generic_visit: visit every child, in order.
ContextualNodeVisitor_generic_visit(t, i, context, out) ==
    ContextualNodeVisitor_visit_each(t, Children(t, i), context, out)

ContextualNodeVisitor_visit_each(t, nodes, context, out) ==
    IF nodes = <<>> THEN out
    ELSE ContextualNodeVisitor_visit_each(t, Tail(nodes), context,
             ContextualNodeVisitor_visit(t, Head(nodes), context, out))

ContextualNodeVisitor_visit_ClassDef(t, i, context, out) ==
    ContextualNodeVisitor_generic_visit(t, i, context \o <<t[i].name>>, out)

ContextualNodeVisitor_visit_FunctionDef(t, i, context, out) ==
    DictSet(out, context \o <<t[i].name>>, i)

\* ast.NodeVisitor.visit: visit_<kind> when the visitor defines it,
\* generic_visit otherwise.
ContextualNodeVisitor_visit(t, i, context, out) ==
    CASE KindOf(t, i) = "ClassDef" ->
            ContextualNodeVisitor_visit_ClassDef(t, i, context, out)
      [] KindOf(t, i) = "FunctionDef" ->
            ContextualNodeVisitor_visit_FunctionDef(t, i, context, out)
      [] OTHER ->
            ContextualNodeVisitor_generic_visit(t, i, context, out)

extract_raw(t) == ContextualNodeVisitor_visit(t, 0, <<>>, EmptyDict)

(***************************************************************************)
(* _function_def_to_parameters.                                            *)
(***************************************************************************)
Parameter(name, positional, keyword, required, line, type_annotation) ==
    [name |-> name, positional |-> positional, keyword |-> keyword,
     required |-> required, line |-> line, type_annotation |-> type_annotation]

num_required(args) ==
    Len(args.posonlyargs) + Len(args.args) - Len(args.defaults)

\* Faulty variant: the assertion is not made.
assert_num_required_skipped(args) == TRUE

\* assert num_required >= 0
assert_num_required(args) == num_required(args) >= 0

\* assert len(args.kwonlyargs) == len(args.kw_defaults)
assert_kw_defaults(args) == Len(args.kwonlyargs) = Len(args.kw_defaults)

\* enumerate(args.posonlyargs): the k-th of them has index k - 1.
posonly_params(args) ==
    [k \in 1..Len(args.posonlyargs) |->
        Parameter(args.posonlyargs[k].arg, TRUE, FALSE,
                  (k - 1) < num_required(args),
                  args.posonlyargs[k].lineno,
                  annotation_to_dataclass(args.posonlyargs[k].annotation))]

\* Faulty variant: the index restarts at 0 for the second group.
poskw_params_restarting(args) ==
    [k \in 1..Len(args.args) |->
        Parameter(args.args[k].arg, TRUE, TRUE,
                  (k - 1) < num_required(args),
                  args.args[k].lineno,
                  annotation_to_dataclass(args.args[k].annotation))]

\* enumerate(args.args, start=len(args.posonlyargs))
poskw_params(args) ==
    [k \in 1..Len(args.args) |->
        Parameter(args.args[k].arg, TRUE, TRUE,
                  (Len(args.posonlyargs) + k - 1) < num_required(args),
                  args.args[k].lineno,
                  annotation_to_dataclass(args.args[k].annotation))]

\* Faulty variant: keyword-only parameters follow the positional defaults.
kwonly_params_by_position(args) ==
    [k \in 1..Len(args.kwonlyargs) |->
        Parameter(args.kwonlyargs[k].arg, FALSE, TRUE,
                  (Len(args.posonlyargs) + Len(args.args) + k - 1) < num_required(args),
                  args.kwonlyargs[k].lineno,
                  annotation_to_dataclass(args.kwonlyargs[k].annotation))]

\* enumerate(args.kwonlyargs), required=args.kw_defaults[i] is None
kwonly_params(args) ==
    [k \in 1..Len(args.kwonlyargs) |->
        Parameter(args.kwonlyargs[k].arg, FALSE, TRUE,
                  args.kw_defaults[k] = None,
                  args.kwonlyargs[k].lineno,
                  annotation_to_dataclass(args.kwonlyargs[k].annotation))]

Parameters(parameters, variadic_args, variadic_kwargs, line) ==
    [parameters |-> parameters, variadic_args |-> variadic_args,
     variadic_kwargs |-> variadic_kwargs, line |-> line]

function_def_to_parameters(t, i) ==
    LET args == t[i].args
    IN IF ~assert_num_required(args) THEN Raised
       ELSE IF ~assert_kw_defaults(args) THEN Raised
       ELSE Returned(Parameters(
                posonly_params(args) \o poskw_params(args) \o kwonly_params(args),
                args.vararg # None, args.kwarg # None, lineno(t, i)))

(***************************************************************************)
(* extract: the dict comprehension over raw_api.items(), in insertion      *)
(* order; an exception leaves the comprehension and the call.              *)
(***************************************************************************)
RECURSIVE extract_items(_, _, _, _)
extract_items(t, raw, names, out) ==
    IF names = <<>> THEN Returned(out)
    ELSE LET r == function_def_to_parameters(t, raw.at[Head(names)])
         IN IF r.status = "raised" THEN Raised
            ELSE extract_items(t, raw, Tail(names),
                               DictSet(out, Head(names), r.value))

extract(t) == extract_items(t, extract_raw(t), extract_raw(t).order, EmptyDict)

(***************************************************************************)
(* extract_classes and its _ClassVisitor.  An identifier of a field is a   *)
(* sequence of characters, so that str.startswith reads its first one.     *)
(***************************************************************************)
Field(name, required, line, type_annotation) ==
    [name |-> name, required |-> required, line |-> line,
     type_annotation |-> type_annotation]

Class(fields, line, dataclass) ==
    [fields |-> fields, line |-> line, dataclass |-> dataclass]

\* field_name.startswith("_")
startswith_underscore(field_name) ==
    Len(field_name) >= 1 /\ field_name[1] = "_"

\* Faulty variant: only the bare identifier is recognised.
is_dataclass_decorator_name_only(dec) ==
    dec.kind = "Name" /\ dec.id = "dataclass"

\* isinstance(dec, ast.Name) and dec.id == "dataclass"
\*   or isinstance(dec, ast.Attribute) and dec.attr == "dataclass"
is_dataclass_decorator(dec) ==
    \/ dec.kind = "Name" /\ dec.id = "dataclass"
    \/ dec.kind = "Attribute" /\ dec.attr = "dataclass"

\* any(... for dec in node.decorator_list)
is_dataclass(decorator_list) ==
    \E k \in 1..Len(decorator_list) : is_dataclass_decorator(decorator_list[k])

\* Faulty variant: required when a value is present.
ann_assign_fields_inverted(t, j) ==
    IF t[j].target.kind = "Name"
    THEN IF startswith_underscore(t[j].target.id) THEN <<>>
         ELSE <<Field(t[j].target.id, t[j].value # None, lineno(t, j),
                      annotation_to_dataclass(t[j].annotation))>>
    ELSE <<>>

\* The isinstance(stmt, ast.AnnAssign) branch of the loop over node.body.
ann_assign_fields(t, j) ==
    IF t[j].target.kind = "Name"
    THEN IF startswith_underscore(t[j].target.id) THEN <<>>
         ELSE <<Field(t[j].target.id, t[j].value = None, lineno(t, j),
                      annotation_to_dataclass(t[j].annotation))>>
    ELSE <<>>

\* Faulty variant: the underscore check is missing for plain assignments.
assign_target_fields_unchecked(target, line) ==
    IF target.kind = "Name" THEN <<Field(target.id, FALSE, line, None)>> ELSE <<>>

\* One target of the loop over stmt.targets.
assign_target_fields(target, line) ==
    IF target.kind = "Name"
    THEN IF startswith_underscore(target.id) THEN <<>>
         ELSE <<Field(target.id, FALSE, line, None)>>
    ELSE <<>>

\* The isinstance(stmt, ast.Assign) branch: for target in stmt.targets.
RECURSIVE assign_fields(_, _)
assign_fields(targets, line) ==
    IF targets = <<>> THEN <<>>
    ELSE assign_target_fields(Head(targets), line)
             \o assign_fields(Tail(targets), line)

stmt_fields(t, j) ==
    CASE t[j].kind = "AnnAssign" -> ann_assign_fields(t, j)
      [] t[j].kind = "Assign" -> assign_fields(t[j].targets, lineno(t, j))
      [] OTHER -> <<>>

\* for stmt in node.body
RECURSIVE body_fields(_, _)
body_fields(t, body) ==
    IF body = <<>> THEN <<>>
    ELSE stmt_fields(t, Head(body)) \o body_fields(t, Tail(body))

RECURSIVE ClassVisitor_visit(_, _, _, _)
RECURSIVE ClassVisitor_visit_each(_, _, _, _)

ClassVisitor_generic_visit(t, i, context, out) ==
    ClassVisitor_visit_each(t, Children(t, i), context, out)

ClassVisitor_visit_each(t, nodes, context, out) ==
    IF nodes = <<>> THEN out
    ELSE ClassVisitor_visit_each(t, Tail(nodes), context,
             ClassVisitor_visit(t, Head(nodes), context, out))

\* out[name] = api.Class(fields=fields, line=node.lineno, dataclass=is_dataclass)
ClassVisitor_record(t, i, name, out) ==
    DictSet(out, name,
            Class(body_fields(t, Children(t, i)), lineno(t, i),
                  is_dataclass(t[i].decorator_list)))

\* Faulty variant: the recursive visitor keeps the context of its parent.
ClassVisitor_descend_same_context(t, i, context, out) ==
    ClassVisitor_generic_visit(t, i, context, out)

\* _ClassVisitor(self._context + [node.name]).generic_visit(node)
ClassVisitor_descend(t, i, context, out) ==
    ClassVisitor_generic_visit(t, i, context \o <<t[i].name>>, out)

ClassVisitor_visit_ClassDef(t, i, context, out) ==
    ClassVisitor_descend(t, i, context,
        ClassVisitor_record(t, i, context \o <<t[i].name>>, out))

\* Faulty variant: function bodies are skipped, as _ContextualNodeVisitor does.
ClassVisitor_visit_skipping_functions(t, i, context, out) ==
    CASE KindOf(t, i) = "ClassDef" ->
            ClassVisitor_visit_ClassDef(t, i, context, out)
      [] KindOf(t, i) = "FunctionDef" -> out
      [] OTHER ->
            ClassVisitor_generic_visit(t, i, context, out)

ClassVisitor_visit(t, i, context, out) ==
    CASE KindOf(t, i) = "ClassDef" ->
            ClassVisitor_visit_ClassDef(t, i, context, out)
      [] OTHER ->
            ClassVisitor_generic_visit(t, i, context, out)

extract_classes(t) == ClassVisitor_visit(t, 0, <<>>, EmptyDict)

(***************************************************************************)
(* The inputs: node variants of the specifications.                        *)
(***************************************************************************)
Names == {"a", "b"}

\* Traversal: classes, functions, asynchronous functions, compound statements.
TraversalNodes ==
    {Node(k, n) : k \in {"ClassDef", "FunctionDef", "AsyncFunctionDef"}, n \in Names}
        \cup {Node("If", None)}

\* ast.arguments of a signature with np positional-only, na
\* positional-or-keyword and nk keyword-only parameters, nd defaults, the
\* keyword-only default slots kwd, and the collectors va and kw.
ArgList(prefix, n) ==
    [k \in 1..n |-> [arg |-> prefix \o ToString(k), lineno |-> k, annotation |-> None]]

MkArgs(np, na, nd, nk, kwd, va, kw) ==
    [posonlyargs |-> ArgList("p", np), args |-> ArgList("a", na),
     defaults |-> [k \in 1..nd |-> "expr"],
     kwonlyargs |-> ArgList("k", nk), kw_defaults |-> kwd,
     vararg |-> va, kwarg |-> kw]

\* Hand-built nodes included: more defaults than positional parameters, and
\* default slots that do not match the keyword-only parameters.
Sigs ==
    {MkArgs(np, na, nd, nk, kwd, va, kw) :
        np \in 0..MaxPosOnly, na \in 0..MaxArgs,
        nd \in 0..(MaxPosOnly + MaxArgs + 1), nk \in 0..MaxKwOnly,
        kwd \in UNION {[1..m -> {None, "expr"}] : m \in 0..(MaxKwOnly + 1)},
        va \in {None, "args"}, kw \in {None, "kwargs"}}

SimpleArgs == MkArgs(0, 1, 0, 0, <<>>, None, None)
TooManyDefaults == MkArgs(0, 1, 2, 0, <<>>, None, None)
KwMismatch == MkArgs(0, 1, 0, 1, <<>>, None, None)

FuncNode(name, args) == [Node("FunctionDef", name) EXCEPT !.args = args]

\* Modules of one function with any signature, or of two functions.
SigTrees ==
    {<<FuncNode(n, a)>> : n \in Names, a \in Sigs}
        \cup {<<FuncNode(n1, a1), FuncNode(n2, a2)>> :
                 n1 \in Names, n2 \in Names,
                 a1 \in {SimpleArgs, TooManyDefaults, KwMismatch},
                 a2 \in {SimpleArgs, TooManyDefaults, KwMismatch}}

\* Assignment targets: simple names, and the shapes that name no field.
NameTarget(id) == [kind |-> "Name", id |-> id]
OtherTarget(kind) == [kind |-> kind, id |-> <<"x">>]

x == <<"x">>
y == <<"y">>
x_ == <<"x", "_">>
_h == <<"_", "h">>

AssignNode(targets) == [Node("Assign", None) EXCEPT !.targets = targets, !.value = "expr"]

AnnAssignNode(target, value) ==
    [Node("AnnAssign", None) EXCEPT !.target = target, !.value = value,
                                    !.annotation = "int"]

\* Statements of a class body: nested class, method, compound statement,
\* plain assignments (one or several targets) and annotated assignments.
FieldNodes ==
    {Node("ClassDef", "b"), Node("FunctionDef", "a"), Node("If", None)}
        \cup {AssignNode(ts) :
                 ts \in {<<NameTarget(x)>>, <<NameTarget(_h)>>, <<NameTarget(x_)>>,
                         <<OtherTarget("Tuple")>>, <<OtherTarget("Attribute")>>,
                         <<OtherTarget("Subscript")>>,
                         <<NameTarget(x), NameTarget(y)>>,
                         <<NameTarget(_h), NameTarget(x)>>,
                         <<NameTarget(x), NameTarget(_h)>>,
                         <<OtherTarget("Tuple"), NameTarget(y)>>}}
        \cup {AnnAssignNode(tg, v) :
                 tg \in {NameTarget(x), NameTarget(_h), OtherTarget("Attribute")},
                 v \in {None, "expr"}}

\* Decorator expressions: ast.Name (id), ast.Attribute (value.attr) and
\* ast.Call (value(...)).
Decorator(kind, id, value, attr) ==
    [kind |-> kind, id |-> id, value |-> value, attr |-> attr]

Decorators ==
    {Decorator("Name", "dataclass", None, None),
     Decorator("Name", "total_ordering", None, None),
     Decorator("Attribute", None, "dataclasses", "dataclass"),
     Decorator("Attribute", None, "functools", "total_ordering"),
     Decorator("Attribute", None, "dataclass", "field"),
     Decorator("Call", None, "dataclass", None)}

\* One class with up to MaxDecorators decorators.
DecoratorTrees ==
    {<<[Node("ClassDef", "a") EXCEPT !.decorator_list = ds]>> :
        ds \in UNION {[1..m -> Decorators] : m \in 0..MaxDecorators}}

(***************************************************************************)
(* The operations.                                                         *)
(***************************************************************************)
NoParams == [status |-> "none", node |-> 0, value |-> EmptyDict]

ExtractRaw ==
    /\ raw_api' = Returned(extract_raw(tree))
    /\ UNCHANGED <<tree, api, classes, params>>

\* extract computes raw_api = extract_raw(path), then classifies each entry.
Extract ==
    /\ raw_api' = Returned(extract_raw(tree))
    /\ api' = extract(tree)
    /\ UNCHANGED <<tree, classes, params>>

ExtractClasses ==
    /\ classes' = Returned(extract_classes(tree))
    /\ UNCHANGED <<tree, raw_api, api, params>>

FunctionDefToParameters ==
    \E i \in DOMAIN tree :
        /\ tree[i].kind = "FunctionDef"
        /\ params' = [status |-> function_def_to_parameters(tree, i).status,
                      node |-> i,
                      value |-> function_def_to_parameters(tree, i).value]
        /\ UNCHANGED <<tree, raw_api, api, classes>>

InitResults ==
    /\ raw_api = NotCalled
    /\ api = NotCalled
    /\ classes = NotCalled
    /\ params = NoParams

\* Any tree of 1..MaxNodes statements.
Init ==
    /\ \E k \in 1..MaxNodes :
          \E vs \in [1..k -> TraversalNodes], ds \in Shapes(k) :
              /\ tree = TreeOf(vs, ds)
              /\ WellFormed(tree)
    /\ InitResults

Next == ExtractRaw \/ Extract \/ ExtractClasses

Spec == Init /\ [][Next]_vars

(***************************************************************************)
(* Lexical structure of a tree, stated without the visitors.               *)
(***************************************************************************)
\* The nodes whose body (at any depth) holds node i.
Ancestors(t, i) ==
    {j \in 1..(i - 1) :
        /\ t[j].depth < t[i].depth
        /\ \A k \in (j + 1)..i : t[k].depth > t[j].depth}

FunctionLike(n) == n.kind \in {"FunctionDef", "AsyncFunctionDef"}

InsideFunction(t, i) == \E j \in Ancestors(t, i) : FunctionLike(t[j])

\* Names of the enclosing classes, outermost first, then the node's own name.
QualifiedName(t, i) ==
    LET cs == SetToSeq({j \in Ancestors(t, i) : t[j].kind = "ClassDef"})
    IN [k \in 1..Len(cs) |-> t[cs[k]].name] \o <<t[i].name>>

ClassNodes(t) == {i \in DOMAIN t : t[i].kind = "ClassDef"}

(***************************************************************************)
(* C1: after extract_raw/extract, no record of the callable mapping is a   *)
(* function defined inside the body of another function-like definition,   *)
(* plain or asynchronous.                                                  *)
(***************************************************************************)
C1_NoCallableFromFunctionBody ==
    raw_api.status = "ok" =>
        \A name \in Keys(raw_api.value) :
            ~InsideFunction(tree, raw_api.value.at[name])

(***************************************************************************)
(* C2: every function-like definition, plain or asynchronous, that is not  *)
(* inside a function body is a key of the callable mapping under the names *)
(* of its enclosing classes followed by its own name, and every key of the *)
(* mapping is the qualified name of the node recorded under it.            *)
(***************************************************************************)
C2_EveryCallableRecorded ==
    raw_api.status = "ok" =>
        /\ \A i \in DOMAIN tree :
              FunctionLike(tree[i]) /\ ~InsideFunction(tree, i)
                  => QualifiedName(tree, i) \in Keys(raw_api.value)
        /\ \A name \in Keys(raw_api.value) :
              QualifiedName(tree, raw_api.value.at[name]) = name

(***************************************************************************)
(* C7: extract_classes records every class definition of the tree, at any  *)
(* depth and also inside function bodies, under the names of its enclosing *)
(* classes followed by its own name; of several definitions with one key   *)
(* the mapping holds the last one visited.                                 *)
(***************************************************************************)
C7_EveryClassRecorded ==
    classes.status = "ok" =>
        /\ Keys(classes.value) = {QualifiedName(tree, i) : i \in ClassNodes(tree)}
        /\ \A i \in ClassNodes(tree) :
              /\ classes.value.at[QualifiedName(tree, i)].line >= lineno(tree, i)
              /\ \E j \in ClassNodes(tree) :
                    /\ QualifiedName(tree, j) = QualifiedName(tree, i)
                    /\ classes.value.at[QualifiedName(tree, i)].line = lineno(tree, j)

\* A class in a function body shares its key with an earlier class.
C7_Witness ==
    /\ classes.status = "ok"
    /\ \E i, j \in ClassNodes(tree) :
          /\ i < j
          /\ InsideFunction(tree, j)
          /\ QualifiedName(tree, i) = QualifiedName(tree, j)
          /\ classes.value.at[QualifiedName(tree, i)].line = lineno(tree, j)

(***************************************************************************)
(* C10: every key of the callable mapping with at least two components,    *)
(* less its last component, is a key of the class mapping of the same      *)
(* tree.                                                                   *)
(***************************************************************************)
C10_CallableScopeIsClass ==
    raw_api.status = "ok" /\ classes.status = "ok" =>
        \A name \in Keys(raw_api.value) :
            Len(name) >= 2 =>
                SubSeq(name, 1, Len(name) - 1) \in Keys(classes.value)

\* A method of a nested class: Outer.Inner.m.
C10_Witness ==
    /\ raw_api.status = "ok"
    /\ classes.status = "ok"
    /\ \E name \in Keys(raw_api.value) :
          /\ Len(name) = 3
          /\ SubSeq(name, 1, 2) \in Keys(classes.value)

(***************************************************************************)
(* The classifier and extract over modules of top-level functions.         *)
(***************************************************************************)
InitSig ==
    /\ tree \in SigTrees
    /\ InitResults

NextSig == FunctionDefToParameters \/ Extract

SpecSig == InitSig /\ [][NextSig]_vars

\* The positional parameters of a signature, in declaration order.
Positional(args) == args.posonlyargs \o args.args

Malformed(args) ==
    \/ Len(args.defaults) > Len(Positional(args))
    \/ Len(args.kwonlyargs) # Len(args.kw_defaults)

(***************************************************************************)
(* C3: with P positional parameters and D <= P defaults, exactly the first *)
(* P - D positional parameters, counted across the positional-only and the *)
(* positional-or-keyword group in declaration order, are required.         *)
(***************************************************************************)
C3_LeadingPositionalRequired ==
    params.status # "none" =>
        LET args == tree[params.node].args
            P == Len(Positional(args))
            D == Len(args.defaults)
        IN /\ ~Malformed(args) => params.status = "ok"
           /\ params.status = "ok" =>
                 /\ D <= P
                 /\ \A k \in 1..P :
                       /\ params.value.parameters[k].name = Positional(args)[k].arg
                       /\ params.value.parameters[k].required <=> (k <= P - D)

\* One positional-only and two positional-or-keyword parameters, one default.
C3_Witness ==
    /\ params.status = "ok"
    /\ Len(tree[params.node].args.posonlyargs) = 1
    /\ Len(tree[params.node].args.args) = 2
    /\ Len(tree[params.node].args.defaults) = 1
    /\ params.value.parameters[2].required
    /\ ~params.value.parameters[3].required

(***************************************************************************)
(* C4: a keyword-only parameter is required iff its default slot is        *)
(* absent, whatever the positional defaults; it is tagged not positional   *)
(* and keyword, and comes after every positional parameter.                *)
(***************************************************************************)
C4_KeywordOnlyRequired ==
    params.status = "ok" =>
        LET args == tree[params.node].args
            P == Len(Positional(args))
            K == Len(args.kwonlyargs)
        IN /\ Len(params.value.parameters) = P + K
           /\ \A k \in 1..P : params.value.parameters[k].positional
           /\ \A k \in 1..K :
                 /\ params.value.parameters[P + k].name = args.kwonlyargs[k].arg
                 /\ params.value.parameters[P + k].required
                        <=> (args.kw_defaults[k] = None)
                 /\ ~params.value.parameters[P + k].positional
                 /\ params.value.parameters[P + k].keyword

\* Two keyword-only parameters, the first with a default, after positional
\* parameters that all have one.
C4_Witness ==
    /\ params.status = "ok"
    /\ Len(tree[params.node].args.args) = 2
    /\ Len(tree[params.node].args.defaults) = 2
    /\ tree[params.node].args.kw_defaults = <<"expr", None>>
    /\ ~params.value.parameters[3].required
    /\ params.value.parameters[4].required

(***************************************************************************)
(* C9: a signature with more defaults than positional parameters, or with  *)
(* keyword-only parameters and default slots of different lengths, makes   *)
(* the classifier raise and return no signature, and extract over a module *)
(* that hands such a signature to the classifier returns no mapping.       *)
(***************************************************************************)
C9_MalformedSignatureIsFatal ==
    /\ params.status # "none" /\ Malformed(tree[params.node].args)
          => params.status = "raised" /\ params.value = EmptyDict
    /\ api.status # "none"
          /\ (\E name \in Keys(raw_api.value) :
                 Malformed(tree[raw_api.value.at[name]].args))
          => api.status = "raised" /\ api.value = EmptyDict

\* extract has raised on the second function, after a well-formed first one.
C9_Witness ==
    /\ api.status = "raised"
    /\ Len(raw_api.value.order) = 2
    /\ ~Malformed(tree[raw_api.value.at[raw_api.value.order[1]]].args)
    /\ Malformed(tree[raw_api.value.at[raw_api.value.order[2]]].args)

(***************************************************************************)
(* extract_classes over class bodies, and over decorated classes.          *)
(***************************************************************************)
\* A root class followed by up to MaxStmts statements.
InitFields ==
    /\ \E k \in 0..MaxStmts :
          \E vs \in [1..k -> FieldNodes], ds \in Shapes(k + 1) :
              /\ tree = TreeOf(<<Node("ClassDef", "a")>> \o vs, ds)
              /\ WellFormed(tree)
    /\ InitResults

NextFields == ExtractClasses

SpecFields == InitFields /\ [][NextFields]_vars

InitDecorators ==
    /\ tree \in DecoratorTrees
    /\ InitResults

NextDecorators == ExtractClasses

SpecDecorators == InitDecorators /\ [][NextDecorators]_vars

\* The direct statements of the body of node i, in declaration order.
DirectBody(t, i) ==
    SetToSeq({j \in DOMAIN t : i \in Ancestors(t, j) /\ t[j].depth = t[i].depth + 1})

Private(id) == Len(id) >= 1 /\ Head(id) = "_"

IsName(target) == target.kind = "Name"

\* What one statement yields: an annotated assignment to a simple name one
\* field, required iff it has no value; a plain assignment one field per
\* simple-name target, not required and without a type.
Yield(t, j) ==
    CASE t[j].kind = "AnnAssign" /\ IsName(t[j].target) ->
            <<[name |-> t[j].target.id, required |-> (t[j].value = None),
               line |-> j, type_annotation |-> annotation_to_dataclass(t[j].annotation)]>>
      [] t[j].kind = "Assign" ->
            LET names == SelectSeq(t[j].targets, IsName)
            IN [k \in 1..Len(names) |->
                   [name |-> names[k].id, required |-> FALSE,
                    line |-> j, type_annotation |-> None]]
      [] OTHER -> <<>>

RECURSIVE Concat(_)
Concat(ss) == IF ss = <<>> THEN <<>> ELSE Head(ss) \o Concat(Tail(ss))

Yielded(t, i) ==
    Concat([k \in 1..Len(DirectBody(t, i)) |-> Yield(t, DirectBody(t, i)[k])])

IsPublic(f) == ~Private(f.name)

(***************************************************************************)
(* C5: no field of a class descriptor has a name starting with an          *)
(* underscore, from an annotated or a plain assignment alike, and skipping *)
(* such a target keeps the other targets of the same statement.            *)
(***************************************************************************)
C5_NoPrivateField ==
    classes.status = "ok" =>
        \A name \in Keys(classes.value) :
            LET c == classes.value.at[name]
                body == DirectBody(tree, c.line)
            IN /\ \A k \in 1..Len(c.fields) : ~Private(c.fields[k].name)
               /\ \A b \in 1..Len(body) :
                     tree[body[b]].kind = "Assign" =>
                        \A g \in 1..Len(tree[body[b]].targets) :
                           LET target == tree[body[b]].targets[g]
                           IN IsName(target) /\ ~Private(target.id) =>
                                 \E k \in 1..Len(c.fields) :
                                    /\ c.fields[k].name = target.id
                                    /\ c.fields[k].line = body[b]

\* `_h = x = ...`: the second target is kept, the first is not.
C5_Witness ==
    /\ classes.status = "ok"
    /\ Len(tree) >= 2
    /\ tree[2].depth = 1
    /\ tree[2].kind = "Assign"
    /\ tree[2].targets = <<NameTarget(_h), NameTarget(x)>>
    /\ \E k \in 1..Len(classes.value.at[<<"a">>].fields) :
          classes.value.at[<<"a">>].fields[k].name = x

(***************************************************************************)
(* C6: is_dataclass_like is true iff some decorator of the class is the    *)
(* bare identifier dataclass or an attribute access whose trailing member  *)
(* is dataclass; calls and other names do not count.                       *)
(***************************************************************************)
C6_DataclassHeuristic ==
    classes.status = "ok" =>
        \A i \in ClassNodes(tree) :
            classes.value.at[QualifiedName(tree, i)].dataclass
                <=> \E k \in 1..Len(tree[i].decorator_list) :
                       tree[i].decorator_list[k] \in
                           {Decorator("Name", "dataclass", None, None)}
                               \cup {d \in Decorators :
                                        d.kind = "Attribute" /\ d.attr = "dataclass"}

\* A call of dataclass and a qualified reference to it: true by the latter.
C6_Witness ==
    /\ classes.status = "ok"
    /\ Len(tree[1].decorator_list) = 2
    /\ tree[1].decorator_list[1].kind = "Call"
    /\ tree[1].decorator_list[2] = Decorator("Attribute", None, "dataclasses", "dataclass")
    /\ classes.value.at[<<"a">>].dataclass

(***************************************************************************)
(* C8 as stated: the field list of a class is exactly what the direct      *)
(* statements of its body yield, in declaration order.                     *)
(***************************************************************************)
C8_FieldsAreYielded ==
    classes.status = "ok" =>
        \A name \in Keys(classes.value) :
            classes.value.at[name].fields
                = Yielded(tree, classes.value.at[name].line)

(***************************************************************************)
(* C8 amended: the field list of a class is exactly what the direct        *)
(* statements of its body yield, in declaration order, less the fields     *)
(* whose name starts with an underscore.                                   *)
(***************************************************************************)
C8_FieldsArePublicYielded ==
    classes.status = "ok" =>
        \A name \in Keys(classes.value) :
            classes.value.at[name].fields
                = SelectSeq(Yielded(tree, classes.value.at[name].line), IsPublic)

\* `x: int` followed by a private statement: the one field is x, required.
C8_Witness ==
    /\ classes.status = "ok"
    /\ Len(tree) = 3
    /\ tree[2] = [AnnAssignNode(NameTarget(x), None) EXCEPT !.depth = 1]
    /\ tree[3].depth = 1
    /\ Len(Yielded(tree, 1)) = 2
    /\ Len(classes.value.at[<<"a">>].fields) = 1
    /\ classes.value.at[<<"a">>].fields[1].required

====
